---- MODULE Spec2Model ----
(***************************************************************************)
(* Payment-to-entitlement reconciliation of Sellr-Backend.                 *)
(*                                                                         *)
(* The stores are the Prisma tables User (availableSlots, usedSlots) and   *)
(* Payment (status, slotsGranted, userId, providerPaymentId).  The HTTP    *)
(* handlers of PaymentController, SlotController/SlotService, UserService  *)
(* and CrudService are the actions.  PaymentService (createPayment,        *)
(* handleWebhook) is not among the sources; it is modelled from the design *)
(* document (sections 4.2 - 4.4 and 5).                                    *)
(***************************************************************************)
EXTENDS Integers, Sequences, FiniteSets, TLC

\* ------------------------------------------------------------------ bounds
NumUsers == 2          \* users 1..NumUsers exist
MaxPayments == 2       \* provider references generated / ledger rows
MaxWebhooks == 2       \* webhook requests in flight at the same time
MaxSlots == 2          \* largest slot count of one purchase or direct credit
MaxOps == 1            \* direct-credit / profile operations in one run
MaxRequests == 2       \* product creation requests in one run

\* ------------------------------------------------------- program constants
DefaultSlots == 5      \* User.availableSlots @default(5)
DtoSlots == 10         \* UserDto.availableSlots = 10
RatePerSlot == 1       \* 1 GHS per slot
MinorUnit == 100       \* Math.round(amount * 100)

Users == 1..NumUsers
Refs == 1..MaxPayments
UnknownRef == MaxPayments + 1       \* a reference no createPayment generated
WebhookIds == 1..MaxWebhooks
ProductReqs == 1..MaxRequests

VARIABLES
    secret,          \* PaystackService.secret (process.env.PAYSTACK_SECRET_KEY); "" = unset
    isDeleted,       \* User.isDeleted, per user id
    availableSlots,  \* User.availableSlots, per user id
    usedSlots,       \* User.usedSlots, per user id
    payments,        \* Payment table: sequence of rows, row id = index
    credited,        \* history: how many times the slots of payment id were added to a balance
    nextRef,         \* number of provider references generated so far
    cp,              \* the payment creation request in flight
    wh,              \* the webhook requests in flight, per connection
    ops,             \* number of direct-credit / profile operations done
    notify,          \* the provider's success notification, per reference:
                     \* none, due, sent or acked, and whether it was retried
    pr,              \* the product creation requests
    products,        \* number of Product rows, per user id
    poll,            \* the response of the last status read
    sigArgs,         \* <<rawBody, signatureHeader>> of a verifySignature call (SpecVerify)
    sigRet           \* <<its result>> once it returned (SpecVerify)

\* What the payment path's handlers never write.
aux == <<notify, pr, products, poll>>

vars == <<aux, secret, isDeleted, availableSlots, usedSlots, payments, credited, nextRef, cp,
          wh, ops, sigArgs, sigRet>>

\* ------------------------------------------------------ webhook signatures
\* A raw request body: the JSON text of {data: {reference, status}}.
\* ws = 0 is the text JSON.stringify produces; ws = 1 is the same JSON with
\* insignificant whitespace.  status "" means the payload has no status.
\* meta stands for the payload's further fields (amount, customer,
\* metadata): those of the payment the reference names, or other ones.
Statuses == {"success", "failed", "abandoned", ""}
Metas == {"own", "other"}
RawBodies == [ref : Refs \cup {UnknownRef}, status : Statuses, ws : {0, 1}, meta : Metas]

\* JSON.parse as done by the body parser: the whitespace is gone.
JSONparse(raw) == [ref |-> raw.ref, status |-> raw.status, meta |-> raw.meta]

\* JSON.stringify: the compact text of the object.
JSONstringify(body) ==
    [ref |-> body.ref, status |-> body.status, ws |-> 0, meta |-> body.meta]

\* crypto.createHmac('sha512', key).update(msg).digest('hex'), as an ideal
\* (collision-free) keyed hash.
Hmac(key, msg) == <<key, msg>>

NoHeader == <<>>       \* header absent (or empty): falsy in verifySignature

verifySignature_FailOpen(sec, rawBody, signatureHeader) ==
    IF sec = "" THEN TRUE
    ELSE IF signatureHeader = NoHeader THEN TRUE
    ELSE Hmac(sec, rawBody) = signatureHeader

\* PaystackService.verifySignature
verifySignature(sec, rawBody, signatureHeader) ==
    IF sec = "" THEN FALSE
    ELSE IF signatureHeader = NoHeader THEN FALSE
    ELSE Hmac(sec, rawBody) = signatureHeader

\* (req as any).rawBody: bootstrap creates the application without the
\* rawBody option and no middleware sets it, so it is undefined.
HasRawBody == FALSE

\* const rawBody = (req as any).rawBody ?? JSON.stringify(req.body)
webhookRawBody(raw) == IF HasRawBody THEN raw ELSE JSONstringify(JSONparse(raw))

webhookStatus_DefaultSuccess(body) == IF body.status = "" THEN "success" ELSE body.status

\* data?.status ?? payload?.status ?? 'unknown'
webhookStatus(body) == IF body.status = "" THEN "unknown" ELSE body.status

\* ------------------------------------------------------------ the ledger
\* Payment rows whose providerPaymentId is ref (unique index: at most one).
findByReference(ref) == {pid \in DOMAIN payments : payments[pid].providerPaymentId = ref}

\* Step 1 of reconcile: the provider's status as a target state, or "NONE".
normalize(status) ==
    IF status = "success" THEN "SUCCESS"
    ELSE IF status = "failed" THEN "FAILED"
    ELSE "NONE"

tryFinalizeApplies_NoGuard(pid) == TRUE

\* tryFinalize: "... WHERE providerReference = ? AND status = 'PENDING'"
tryFinalizeApplies(pid) == payments[pid].status = "PENDING"

\* A row is locked by the transaction that updated it, until it ends.
Locked(pid) == \E j \in WebhookIds : wh[j].pc = "intx" /\ wh[j].pid = pid

creditAmount_Always(pid, target) == payments[pid].slotsGranted

\* creditUnits is part of the unit only when the target is SUCCESS.
creditAmount(pid, target) ==
    IF target = "SUCCESS" THEN payments[pid].slotsGranted ELSE 0

creditUnits_FirstUser(userId, amount) == [availableSlots EXCEPT ![1] = @ + amount]

creditUnits_Overwrite(userId, amount) ==
    [availableSlots EXCEPT ![userId] = DefaultSlots + amount]

\* creditUnits: data: { availableSlots: { increment: amount } }, the atomic
\* increment of one user's counter.
creditUnits(userId, amount) == [availableSlots EXCEPT ![userId] = @ + amount]

rolledBack_StatusKept(pid, target) == [payments EXCEPT ![pid].status = target]

\* The ledger after the unit of work failed: the status write is undone.
rolledBack(pid, target) == payments

\* A webhook connection with no request in progress, after its last request:
Idle_Always200(resp, genuine, pid, target) ==
    [pc |-> "idle", pid |-> pid, target |-> target, resp |-> 200, genuine |-> genuine]

\* resp is the HTTP status answered (0: no request yet), genuine whether the
\* header was the HMAC of the bytes received, pid the ledger row the request
\* referred to (0: none) and target the state it reported.
Idle(resp, genuine, pid, target) ==
    [pc |-> "idle", pid |-> pid, target |-> target, resp |-> resp, genuine |-> genuine]

\* No creation request in progress; result is the outcome of the last one.
NoCreation(result) ==
    [pc |-> "idle", via |-> "", userId |-> 0, amount |-> 0, slots |-> 0, ref |-> 0,
     sent |-> 0, result |-> result]

\* No status read answered yet.
NoPoll ==
    [kind |-> "none", id |-> 0, status |-> "", isCompleted |-> FALSE, isPending |-> FALSE,
     isFailed |-> FALSE, availableSlots |-> 0, usedSlots |-> 0, rows |-> {}]

\* ------------------------------------------------------------------ Init
InitStore ==
    /\ availableSlots = [u \in Users |-> DefaultSlots]
    /\ usedSlots = [u \in Users |-> 0]
    /\ payments = <<>>
    /\ credited = [pid \in 1..MaxPayments |-> 0]
    /\ notify = [r \in Refs |-> [st |-> "none", retried |-> FALSE]]
    /\ pr = [k \in ProductReqs |-> [pc |-> "idle", userId |-> 0]]
    /\ products = [u \in Users |-> 0]
    /\ poll = NoPoll
    /\ nextRef = 0
    /\ cp = NoCreation("")
    /\ wh = [i \in WebhookIds |-> Idle(0, FALSE, 0, "")]
    /\ ops = 0

Init ==
    /\ secret \in {"", "sk"}
    /\ isDeleted = [u \in Users |-> FALSE]
    /\ InitStore
    /\ sigArgs = <<>>
    /\ sigRet = <<>>

\* ------------------------------------------------------ payment creation
createPaymentError_NoValidation(userId, amount, units) ==
    IF userId \notin Users \/ isDeleted[userId] THEN "UserNotFound" ELSE "ok"

createPaymentError_AnyUser(userId, amount, units) ==
    IF amount <= 0 \/ units <= 0 THEN "InvalidRequest"
    ELSE IF userId \notin Users THEN "UserNotFound"
    ELSE "ok"

\* createPayment's checks before any provider call: the amount and the
\* units are positive, the user exists and is active.
createPaymentError(userId, amount, units) ==
    IF amount <= 0 \/ units <= 0 THEN "InvalidRequest"
    ELSE IF userId \notin Users \/ isDeleted[userId] THEN "UserNotFound"
    ELSE "ok"

\* createPayment up to the provider call: validate, then generate a fresh
\* provider reference.
createPayment(via, userId, amount, units) ==
    LET err == createPaymentError(userId, amount, units) IN
    IF err # "ok"
    THEN /\ cp' = NoCreation(err)
         /\ UNCHANGED nextRef
    ELSE /\ nextRef < MaxPayments
         /\ nextRef' = nextRef + 1
         /\ cp' = [pc |-> "init", via |-> via, userId |-> userId, amount |-> amount,
                   slots |-> units, ref |-> nextRef + 1, sent |-> 0, result |-> ""]

\* POST /payments when the reference createPayment generates is one it
\* generated before (a replayed creation, a collision of the generator).
createCollision(userId, amount, units, ref) ==
    /\ cp.pc = "idle"
    /\ createPaymentError(userId, amount, units) = "ok"
    /\ ref \in 1..nextRef
    /\ cp' = [pc |-> "init", via |-> "payments", userId |-> userId, amount |-> amount,
              slots |-> units, ref |-> ref, sent |-> 0, result |-> ""]
    /\ UNCHANGED <<aux, secret, isDeleted, availableSlots, usedSlots, payments, credited, nextRef,
                   wh, ops, sigArgs, sigRet>>

\* PaymentController.create: POST /payments {userId, amount, metadata}
create(userId, amount, units) ==
    /\ cp.pc = "idle"
    /\ createPayment("payments", userId, amount, units)
    /\ UNCHANGED <<aux, secret, isDeleted, availableSlots, usedSlots, payments, credited, wh, ops,
                   sigArgs, sigRet>>

purchaseSlots_NoSlotsCheck(userId, slots) ==
    /\ cp.pc = "idle"
    /\ IF userId <= 0
       THEN cp' = NoCreation("Invalid userId") /\ UNCHANGED nextRef
       ELSE IF userId \notin Users
       THEN cp' = NoCreation("NotFound") /\ UNCHANGED nextRef
       ELSE createPayment("slots", userId, slots * RatePerSlot, slots)
    /\ UNCHANGED <<aux, secret, isDeleted, availableSlots, usedSlots, payments, credited, wh, ops,
                   sigArgs, sigRet>>

\* SlotService.purchaseSlots, up to the call of createPayment: the two
\* BadRequestExceptions ("Invalid userId", "Invalid slots"), the
\* NotFoundException, then createPayment(userId, slots * 1, metadata).
purchaseSlots(userId, slots) ==
    /\ cp.pc = "idle"
    /\ IF userId <= 0
       THEN cp' = NoCreation("Invalid userId") /\ UNCHANGED nextRef
       ELSE IF slots <= 0
       THEN cp' = NoCreation("Invalid slots") /\ UNCHANGED nextRef
       ELSE IF userId \notin Users
       THEN cp' = NoCreation("NotFound") /\ UNCHANGED nextRef
       ELSE createPayment("slots", userId, slots * RatePerSlot, slots)
    /\ UNCHANGED <<aux, secret, isDeleted, availableSlots, usedSlots, payments, credited, wh, ops,
                   sigArgs, sigRet>>

providerAmount_NoConversion(amount) == amount

\* amount: Math.round(amount * 100), the amount in the smallest currency
\* unit (amounts are whole numbers of GHS here).
providerAmount(amount) == amount * MinorUnit

initializeTransaction_NoThrow(ok) ==
    /\ cp.pc = "init"
    /\ cp' = [cp EXCEPT !.pc = "insert", !.sent = providerAmount(cp.amount)]
    /\ UNCHANGED <<aux, secret, isDeleted, availableSlots, usedSlots, payments, credited, nextRef,
                   wh, ops, sigArgs, sigRet>>

\* PaystackService.initializeTransaction, called by createPayment with the
\* payment's amount: the request carries providerAmount(amount), and the
\* provider accepts the transaction or the call fails.
initializeTransaction(ok) ==
    /\ cp.pc = "init"
    /\ cp' = IF ok THEN [cp EXCEPT !.pc = "insert", !.sent = providerAmount(cp.amount)]
             ELSE NoCreation("ProviderError")
    /\ UNCHANGED <<aux, secret, isDeleted, availableSlots, usedSlots, payments, credited, nextRef, wh,
                   ops, sigArgs, sigRet>>

purchaseCredit_Eager(via, slots) == IF via = "slots" THEN slots ELSE 0

\* Slots purchaseSlots credits once createPayment has succeeded: none
\* ("do NOT credit slots here").
purchaseCredit(via, slots) == 0

insertPendingError_NoIndex(ok, ref) == IF ok THEN "ok" ELSE "StoreError"

\* insertPending's outcome: the unique index on providerPaymentId rejects a
\* reference that is in the table; ok = FALSE is any other failure of the
\* insert.
insertPendingError(ok, ref) ==
    IF findByReference(ref) # {} THEN "DuplicateReference"
    ELSE IF ok THEN "ok" ELSE "StoreError"

\* insertPending, then the rest of the caller.
insertPending(ok) ==
    /\ cp.pc = "insert"
    /\ IF insertPendingError(ok, cp.ref) = "ok"
       THEN LET n == purchaseCredit(cp.via, cp.slots) IN
            /\ payments' = Append(payments,
                   [userId |-> cp.userId, amount |-> cp.amount, slotsGranted |-> cp.slots,
                    status |-> "PENDING", providerPaymentId |-> cp.ref])
            /\ availableSlots' = [availableSlots EXCEPT ![cp.userId] = @ + n]
            /\ credited' = [credited EXCEPT ![Len(payments) + 1] = @ + (IF n > 0 THEN 1 ELSE 0)]
            /\ cp' = NoCreation("ok")
       ELSE /\ cp' = NoCreation("InternalError")
            /\ UNCHANGED <<payments, availableSlots, credited>>
    /\ UNCHANGED <<aux, secret, isDeleted, usedSlots, nextRef, wh, ops, sigArgs, sigRet>>

\* ------------------------------------------------------------- reconcile
\* PaymentService.handleWebhook({providerPaymentId, status}) up to its first
\* write; the controller answers 200 with its result and 500 when it throws.
handleWebhook(i, providerPaymentId, status, genuine) ==
    LET target == normalize(status)
        rows == findByReference(providerPaymentId)
    IN  IF target = "NONE" \/ rows = {}
        THEN wh' = [wh EXCEPT ![i] = Idle(200, genuine, 0, target)]
        ELSE \E pid \in rows :
                /\ ~Locked(pid)
                /\ IF tryFinalizeApplies(pid)
                   THEN wh' = [wh EXCEPT ![i] = [pc |-> "intx", pid |-> pid, target |-> target,
                                                 resp |-> 0, genuine |-> genuine]]
                   ELSE wh' = [wh EXCEPT ![i] = Idle(200, genuine, pid, target)]

\* PaymentController.webhook on connection i, with the bytes raw and the
\* x-paystack-signature header sig: what it does to the connection.
webhookRequest(i, raw, sig) ==
    /\ wh[i].pc = "idle"
    /\ LET rawBody == webhookRawBody(raw)
           valid == verifySignature(secret, rawBody, sig)
           genuine == secret # "" /\ sig = Hmac(secret, raw)
           payload == JSONparse(raw)
       IN  IF ~valid
           THEN wh' = [wh EXCEPT ![i] = Idle(400, genuine, 0, "")]
           ELSE handleWebhook(i, payload.ref, webhookStatus(payload), genuine)

\* PaymentController.webhook: POST /payments/webhook
webhook(i, raw, sig) ==
    /\ webhookRequest(i, raw, sig)
    /\ UNCHANGED <<aux, secret, isDeleted, availableSlots, usedSlots, payments, credited, nextRef, cp,
                   ops, sigArgs, sigRet>>

\* The unit of work commits: the status write and the credit become visible
\* together.
commitTx(i) ==
    /\ wh[i].pc = "intx"
    /\ LET pid == wh[i].pid
           target == wh[i].target
           n == creditAmount(pid, target)
       IN  /\ payments' = [payments EXCEPT ![pid].status = target]
           /\ availableSlots' = creditUnits(payments[pid].userId, n)
           /\ credited' = [credited EXCEPT ![pid] = @ + (IF n > 0 THEN 1 ELSE 0)]
    /\ wh' = [wh EXCEPT ![i] = Idle(200, wh[i].genuine, wh[i].pid, wh[i].target)]
    /\ UNCHANGED <<aux, secret, isDeleted, usedSlots, nextRef, cp, ops, sigArgs, sigRet>>

\* The unit of work fails after its first write: it is rolled back and the
\* controller's catch answers 500.
abortTx(i) ==
    /\ wh[i].pc = "intx"
    /\ payments' = rolledBack(wh[i].pid, wh[i].target)
    /\ wh' = [wh EXCEPT ![i] = Idle(500, wh[i].genuine, wh[i].pid, wh[i].target)]
    /\ UNCHANGED <<aux, secret, isDeleted, availableSlots, usedSlots, credited, nextRef, cp, ops,
                   sigArgs, sigRet>>

\* ------------------------------------------------------- the status reads
UpperCase == <<"A", "B", "C", "D", "E", "F", "G", "H", "I", "J", "K", "L", "M",
               "N", "O", "P", "Q", "R", "S", "T", "U", "V", "W", "X", "Y", "Z">>
LowerCase == <<"a", "b", "c", "d", "e", "f", "g", "h", "i", "j", "k", "l", "m",
               "n", "o", "p", "q", "r", "s", "t", "u", "v", "w", "x", "y", "z">>

\* The characters of a stored Payment.status.
Chars(status) ==
    CASE status = "PENDING" -> <<"P", "E", "N", "D", "I", "N", "G">>
      [] status = "SUCCESS" -> <<"S", "U", "C", "C", "E", "S", "S">>
      [] status = "FAILED" -> <<"F", "A", "I", "L", "E", "D">>
      [] OTHER -> <<>>

toLowerCase_Identity(str) == str

\* String.prototype.toLowerCase
toLowerCase(str) ==
    [i \in DOMAIN str |->
        IF \E k \in DOMAIN UpperCase : UpperCase[k] = str[i]
        THEN LowerCase[CHOOSE k \in DOMAIN UpperCase : UpperCase[k] = str[i]]
        ELSE str[i]]

\* String.prototype.includes
includes(str, sub) ==
    \E i \in 0..(Len(str) - Len(sub)) : SubSeq(str, i + 1, i + Len(sub)) = sub

getPaymentStatus_Finalizes(paymentId) ==
    /\ paymentId \in DOMAIN payments
    /\ poll' = [NoPoll EXCEPT !.kind = "status", !.id = paymentId, !.status = "SUCCESS",
                              !.isCompleted = TRUE]
    /\ payments' = [payments EXCEPT ![paymentId].status = "SUCCESS"]
    /\ UNCHANGED <<notify, pr, products, secret, isDeleted, availableSlots, usedSlots, credited,
                   nextRef, cp, wh, ops, sigArgs, sigRet>>

\* SlotService.getPaymentStatus: GET /slots/payment-status/:paymentId
getPaymentStatus(paymentId) ==
    /\ poll' = IF paymentId \notin DOMAIN payments
               THEN [NoPoll EXCEPT !.kind = "NotFound", !.id = paymentId]
               ELSE LET status == payments[paymentId].status
                        lower == toLowerCase(Chars(status))
                    IN  [NoPoll EXCEPT
                            !.kind = "status", !.id = paymentId, !.status = status,
                            !.isCompleted = includes(lower, <<"s", "u", "c", "c", "e", "s", "s">>),
                            !.isPending = (lower = <<"p", "e", "n", "d", "i", "n", "g">>),
                            !.isFailed = includes(lower, <<"f", "a", "i", "l">>)]
    /\ UNCHANGED <<notify, pr, products, secret, isDeleted, availableSlots, usedSlots, payments,
                   credited, nextRef, cp, wh, ops, sigArgs, sigRet>>

\* SlotService.getUserSlots: GET /slots/:userId
getUserSlots(userId) ==
    /\ poll' = IF userId \notin Users
               THEN [NoPoll EXCEPT !.kind = "NotFound", !.id = userId]
               ELSE [NoPoll EXCEPT !.kind = "slots", !.id = userId,
                                   !.availableSlots = availableSlots[userId],
                                   !.usedSlots = usedSlots[userId]]
    /\ UNCHANGED <<notify, pr, products, secret, isDeleted, availableSlots, usedSlots, payments,
                   credited, nextRef, cp, wh, ops, sigArgs, sigRet>>

\* PaymentController.getById -> getPaymentById: GET /payments/:id, a
\* read-only ledger query.
getById(paymentId) ==
    /\ poll' = IF paymentId \notin DOMAIN payments
               THEN [NoPoll EXCEPT !.kind = "NotFound", !.id = paymentId]
               ELSE [NoPoll EXCEPT !.kind = "payment", !.id = paymentId,
                                   !.status = payments[paymentId].status]
    /\ UNCHANGED <<notify, pr, products, secret, isDeleted, availableSlots, usedSlots, payments,
                   credited, nextRef, cp, wh, ops, sigArgs, sigRet>>

\* PaymentController.getByUser -> getPaymentsByUser: GET /payments/user/:id,
\* a read-only ledger query.
getByUser(userId) ==
    /\ poll' = [NoPoll EXCEPT
                   !.kind = "payments", !.id = userId,
                   !.rows = {<<pid, payments[pid].status>> :
                                pid \in {q \in DOMAIN payments : payments[q].userId = userId}}]
    /\ UNCHANGED <<notify, pr, products, secret, isDeleted, availableSlots, usedSlots, payments,
                   credited, nextRef, cp, wh, ops, sigArgs, sigRet>>

\* ------------------------------------------------------------ the provider
\* The notification the provider sends for a paid transaction.
SuccessBody(r) == [ref |-> r, status |-> "success", ws |-> 0, meta |-> "own"]

\* The customer pays transaction r, which initializeTransaction has
\* registered at the provider: its notification becomes due.
providerPaid(r) ==
    /\ notify[r].st = "none"
    /\ (cp.pc = "insert" /\ cp.ref = r) \/ findByReference(r) # {}
    /\ notify' = [notify EXCEPT ![r].st = "due"]
    /\ UNCHANGED <<pr, products, poll, secret, isDeleted, availableSlots, usedSlots, payments,
                   credited, nextRef, cp, wh, ops, sigArgs, sigRet>>

\* The provider posts the notification of r, signed with the secret, to
\* POST /payments/webhook (one delivery at a time).
deliver(r) ==
    /\ notify[r].st = "due"
    /\ \A q \in Refs : notify[q].st # "sent"
    /\ webhookRequest(1, SuccessBody(r), Hmac(secret, SuccessBody(r)))
    /\ notify' = [notify EXCEPT ![r].st = "sent"]
    /\ UNCHANGED <<pr, products, poll, secret, isDeleted, availableSlots, usedSlots, payments,
                   credited, nextRef, cp, ops, sigArgs, sigRet>>

\* The provider reads the response to the delivery of r: a 2xx ends the
\* delivery, anything else schedules a retry.
providerResponse(r) ==
    /\ notify[r].st = "sent"
    /\ wh[1].pc = "idle"
    /\ notify' = [notify EXCEPT ![r] = IF wh[1].resp = 200
                                       THEN [st |-> "acked", retried |-> @.retried]
                                       ELSE [st |-> "due", retried |-> TRUE]]
    /\ UNCHANGED <<pr, products, poll, secret, isDeleted, availableSlots, usedSlots, payments,
                   credited, nextRef, cp, wh, ops, sigArgs, sigRet>>

\* ------------------------------------- other writers of the slot counters
\* SlotController.credit -> SlotService.creditSlots: POST /slots/credit
creditSlots(userId, slots) ==
    /\ ops < MaxOps
    /\ IF slots <= 0 \/ userId \notin Users
       THEN UNCHANGED availableSlots
       ELSE availableSlots' = creditUnits(userId, slots)
    /\ ops' = ops + 1
    /\ UNCHANGED <<aux, secret, isDeleted, usedSlots, payments, credited, nextRef, cp, wh, sigArgs, sigRet>>

\* UserController.updateUser -> UserService.update: PATCH /users/:id; the
\* DTO's availableSlots is written as it is (DtoSlots when the body has none).
updateUser(userId, slots) ==
    /\ ops < MaxOps
    /\ IF userId \notin Users
       THEN UNCHANGED availableSlots
       ELSE availableSlots' = [availableSlots EXCEPT ![userId] = slots]
    /\ ops' = ops + 1
    /\ UNCHANGED <<aux, secret, isDeleted, usedSlots, payments, credited, nextRef, cp, wh, sigArgs, sigRet>>

\* CrudService.createProduct, request k: the transaction reads the user
\* (a plain findUnique) and checks availableSlots; without a user or a slot
\* it throws and the request fails.
createProduct(k, userId) ==
    /\ pr[k].pc = "idle"
    /\ IF userId \notin Users \/ availableSlots[userId] <= 0
       THEN pr' = [pr EXCEPT ![k] = [pc |-> "failed", userId |-> userId]]
       ELSE pr' = [pr EXCEPT ![k] = [pc |-> "intx", userId |-> userId]]
    /\ UNCHANGED <<notify, products, poll, secret, isDeleted, availableSlots, usedSlots,
                   payments, credited, nextRef, cp, wh, ops, sigArgs, sigRet>>

\* The rest of the transaction of request k: product.create, then
\* user.update with availableSlots: { decrement: 1 } and
\* usedSlots: { increment: 1 }, and the commit.
createProductCommit(k) ==
    /\ pr[k].pc = "intx"
    /\ products' = [products EXCEPT ![pr[k].userId] = @ + 1]
    /\ availableSlots' = [availableSlots EXCEPT ![pr[k].userId] = @ - 1]
    /\ usedSlots' = [usedSlots EXCEPT ![pr[k].userId] = @ + 1]
    /\ pr' = [pr EXCEPT ![k].pc = "done"]
    /\ UNCHANGED <<notify, poll, secret, isDeleted, payments, credited, nextRef, cp, wh, ops,
                   sigArgs, sigRet>>

\* The transaction of request k fails after its check: it is rolled back
\* and the request fails (InternalServerErrorException).
createProductAbort(k) ==
    /\ pr[k].pc = "intx"
    /\ pr' = [pr EXCEPT ![k].pc = "failed"]
    /\ UNCHANGED <<notify, products, poll, secret, isDeleted, availableSlots, usedSlots,
                   payments, credited, nextRef, cp, wh, ops, sigArgs, sigRet>>

\* ------------------------------------------------------------------ inputs
UserInputs == 0..(NumUsers + 1)
SlotInputs == (-1)..MaxSlots
UpdateInputs == {-1, 0, DtoSlots}
Keys == {"sk", "other"}

\* The provider's deliveries: compact JSON signed with the shared key, or a
\* request without the header.
Plain == {raw \in RawBodies : raw.meta = "own"}
Compact == {raw \in Plain : raw.ws = 0}
ProviderHeaders(raw) == {NoHeader, Hmac("sk", raw)}

\* Any sender's deliveries: no header, or the HMAC under the server's or
\* another key of the body, of its compact form, or of the provider's message
\* before its status was changed.
Flipped(raw) == [raw EXCEPT !.status = IF @ = "success" THEN "failed" ELSE "success"]
AnyHeaders(raw) ==
    {NoHeader} \cup {Hmac(k, m) : k \in Keys, m \in {raw, JSONstringify(JSONparse(raw)), Flipped(raw)}}

\* Creation requests with the user ids, amounts and slot counts of U, A and N.
Creation(U, A, N) ==
    \/ \E u \in U, a \in A, n \in N : create(u, a, n)
    \/ \E u \in U, n \in N : purchaseSlots(u, n)
    \/ \E ok \in BOOLEAN : initializeTransaction(ok)
    \/ \E ok \in BOOLEAN : insertPending(ok)

\* The payment path under concurrency: well-formed creations, and the
\* provider's deliveries on every connection.
Next ==
    \/ Creation(Users, {MaxSlots}, 1..MaxSlots)
    \/ \E i \in WebhookIds, raw \in Compact : \E sig \in ProviderHeaders(raw) : webhook(i, raw, sig)
    \/ \E i \in WebhookIds : commitTx(i)
    \/ \E i \in WebhookIds : abortTx(i)

Spec == Init /\ [][Next]_vars

\* The payment path with one delivery at a time, and the direct credit and
\* the profile update.
NextAdmin ==
    \/ Creation(Users, {MaxSlots}, 1..MaxSlots)
    \/ \E raw \in Compact : \E sig \in ProviderHeaders(raw) : webhook(1, raw, sig)
    \/ commitTx(1)
    \/ abortTx(1)
    \/ \E u \in UserInputs, n \in SlotInputs : creditSlots(u, n)
    \/ \E u \in UserInputs, n \in UpdateInputs : updateUser(u, n)

SpecAdmin == Init /\ [][NextAdmin]_vars

\* The payment path with one delivery at a time: any creation request, and
\* deliveries from any sender.
NextSeq ==
    \/ Creation(UserInputs, SlotInputs, SlotInputs)
    \/ \E raw \in Plain : \E sig \in AnyHeaders(raw) : webhook(1, raw, sig)
    \/ commitTx(1)
    \/ abortTx(1)

SpecSeq == Init /\ [][NextSeq]_vars

\* Creation requests alone, with any input, on a table whose users may be
\* deleted.
InitCreate ==
    /\ secret \in {"", "sk"}
    /\ isDeleted \in [Users -> BOOLEAN]
    /\ InitStore
    /\ sigArgs = <<>>
    /\ sigRet = <<>>

NextCreate == Creation(UserInputs, SlotInputs, SlotInputs)

SpecCreate == InitCreate /\ [][NextCreate]_vars

\* The payment path with one delivery at a time, when createPayment may
\* generate a reference a second time.
NextReplay ==
    \/ Creation(Users, {MaxSlots}, 1..MaxSlots)
    \/ \E u \in Users, n \in 1..MaxSlots, r \in Refs : createCollision(u, n * RatePerSlot, n, r)
    \/ \E raw \in Compact : \E sig \in ProviderHeaders(raw) : webhook(1, raw, sig)
    \/ commitTx(1)
    \/ abortTx(1)

SpecReplay == Init /\ [][NextReplay]_vars

\* The payment path with one delivery at a time, when the provider's
\* payloads carry any further fields.
NextPayload ==
    \/ Creation(Users, {MaxSlots}, 1..MaxSlots)
    \/ \E raw \in RawBodies : raw.ws = 0 /\ \E sig \in ProviderHeaders(raw) : webhook(1, raw, sig)
    \/ commitTx(1)
    \/ abortTx(1)

SpecPayload == Init /\ [][NextPayload]_vars

\* Every user has created DefaultSlots - 1 products and has one slot left.
InitCatalog ==
    /\ secret = "sk"
    /\ isDeleted = [u \in Users |-> FALSE]
    /\ availableSlots = [u \in Users |-> 1]
    /\ usedSlots = [u \in Users |-> DefaultSlots - 1]
    /\ products = [u \in Users |-> DefaultSlots - 1]
    /\ payments = <<>>
    /\ credited = [pid \in 1..MaxPayments |-> 0]
    /\ notify = [r \in Refs |-> [st |-> "none", retried |-> FALSE]]
    /\ pr = [k \in ProductReqs |-> [pc |-> "idle", userId |-> 0]]
    /\ poll = NoPoll
    /\ nextRef = 0
    /\ cp = NoCreation("")
    /\ wh = [i \in WebhookIds |-> Idle(0, FALSE, 0, "")]
    /\ ops = 0
    /\ sigArgs = <<>>
    /\ sigRet = <<>>

\* Concurrent product creations, a purchase of one slot with its settlement,
\* and profile updates.
NextCatalog ==
    \/ \E k \in ProductReqs, u \in UserInputs : createProduct(k, u)
    \/ \E k \in ProductReqs : createProductCommit(k)
    \/ \E k \in ProductReqs : createProductAbort(k)
    \/ \E u \in UserInputs, n \in UpdateInputs : updateUser(u, n)
    \/ Creation({1}, {1}, {1})
    \/ \E r \in Refs : webhook(1, SuccessBody(r), Hmac("sk", SuccessBody(r)))
    \/ commitTx(1)
    \/ abortTx(1)

SpecCatalog == InitCatalog /\ [][NextCatalog]_vars

\* The webhook secret is configured.
InitDeliver ==
    /\ secret = "sk"
    /\ isDeleted = [u \in Users |-> FALSE]
    /\ InitStore
    /\ sigArgs = <<>>
    /\ sigRet = <<>>

\* A client polling while payments are created and settled.
NextPoll ==
    \/ Creation({1}, {MaxSlots}, {MaxSlots})
    \/ \E raw \in Compact : webhook(1, raw, Hmac("sk", raw))
    \/ commitTx(1)
    \/ abortTx(1)
    \/ \E id \in 0..MaxPayments : getPaymentStatus(id)
    \/ \E u \in UserInputs : getUserSlots(u)
    \/ \E id \in 0..MaxPayments : getById(id)
    \/ \E u \in UserInputs : getByUser(u)

SpecPoll == InitDeliver /\ [][NextPoll]_vars

\* Creations and the provider delivering its notifications with retries.
NextDeliver ==
    \/ Creation({1}, {MaxSlots}, {MaxSlots})
    \/ \E r \in Refs : providerPaid(r)
    \/ \E r \in Refs : deliver(r)
    \/ \E r \in Refs : providerResponse(r)
    \/ commitTx(1)
    \/ abortTx(1)

\* The provider keeps delivering and reading responses, the server finishes
\* what it started, and a unit of work that is retried again and again
\* commits at some point.
SpecDeliver ==
    /\ InitDeliver /\ [][NextDeliver]_vars
    /\ \A r \in Refs : WF_vars(deliver(r)) /\ WF_vars(providerResponse(r))
    /\ WF_vars(\E ok \in BOOLEAN : insertPending(ok))
    /\ WF_vars(commitTx(1) \/ abortTx(1))
    /\ SF_vars(commitTx(1))

\* PaystackService.verifySignature alone, on any secret, body and header.
InitVerify ==
    /\ secret \in {""} \cup Keys
    /\ isDeleted = [u \in Users |-> FALSE]
    /\ InitStore
    /\ sigArgs \in {<<raw, sig>> : raw \in Plain, sig \in UNION {AnyHeaders(r) : r \in Plain}}
    /\ sigRet = <<>>

verifyCall ==
    /\ sigRet = <<>>
    /\ sigRet' = <<verifySignature(secret, sigArgs[1], sigArgs[2])>>
    /\ UNCHANGED <<aux, secret, isDeleted, availableSlots, usedSlots, payments, credited, nextRef, cp, wh,
                   ops, sigArgs>>

NextVerify == verifyCall

SpecVerify == InitVerify /\ [][NextVerify]_vars

\* ------------------------------------------------------------ properties
Terminal == {"SUCCESS", "FAILED"}

\* The slots of the SUCCESS payments of user u.
Settled(u) ==
    LET RECURSIVE S(_)
        S(k) == IF k = 0 THEN 0
                ELSE S(k - 1) + (IF payments[k].userId = u /\ payments[k].status = "SUCCESS"
                                 THEN payments[k].slotsGranted ELSE 0)
    IN  S(Len(payments))

\* Connection i has answered a reconcile(ref, SUCCESS) call for row pid with a success.
Acked(i, pid) ==
    /\ wh[i].pc = "idle" /\ wh[i].resp = 200
    /\ wh[i].target = "SUCCESS" /\ wh[i].pid = pid

\* C1: once a reconcile(R, SUCCESS) call has returned for a payment whose row
\* was PENDING when the first such call acted (the payment was not finalised
\* FAILED), the payment is SUCCESS and its slots have been added to the
\* owner's availableSlots exactly once, however many such calls were made
\* and whatever creations and other deliveries ran in between.
C1_IdempotentSettlement ==
    /\ \A pid \in DOMAIN payments : credited[pid] <= 1
    /\ \A u \in Users : availableSlots[u] = DefaultSlots + Settled(u)
    /\ \A i \in WebhookIds : \A pid \in DOMAIN payments :
          (Acked(i, pid) /\ payments[pid].status # "FAILED")
             => (payments[pid].status = "SUCCESS" /\ credited[pid] = 1)

\* Two reconcile(R, SUCCESS) calls have returned for the same payment.
C1_Witness ==
    \E pid \in DOMAIN payments :
        /\ Acked(1, pid) /\ Acked(2, pid)
        /\ payments[pid].status = "SUCCESS" /\ credited[pid] = 1
        /\ availableSlots[payments[pid].userId] = DefaultSlots + payments[pid].slotsGranted

\* C2: in every state a payment is SUCCESS exactly if its slots have been
\* added to its owner's availableSlots (once), also after a unit of work
\* failed between its two writes.
C2_AtomicPairing ==
    /\ \A pid \in DOMAIN payments : (payments[pid].status = "SUCCESS") <=> (credited[pid] = 1)
    /\ \A pid \in DOMAIN payments : credited[pid] \in {0, 1}
    /\ \A u \in Users : availableSlots[u] = DefaultSlots + Settled(u)

\* A unit of work for a SUCCESS report failed after its first write and was
\* rolled back; another payment of the same run is settled.
C2_Witness ==
    \E i \in WebhookIds : \E pid, qid \in DOMAIN payments :
        /\ wh[i].pc = "idle" /\ wh[i].resp = 500 /\ wh[i].pid = pid /\ wh[i].target = "SUCCESS"
        /\ payments[pid].status = "PENDING" /\ credited[pid] = 0
        /\ payments[qid].status = "SUCCESS" /\ credited[qid] = 1

\* The units of work open at one time, and the credits made so far.
C3_Inv ==
    /\ \A i, j \in WebhookIds :
          (i # j /\ wh[i].pc = "intx" /\ wh[j].pc = "intx") => wh[i].pid # wh[j].pid
    /\ \A i \in WebhookIds : wh[i].pc = "intx" => payments[wh[i].pid].status = "PENDING"
    /\ \A pid \in DOMAIN payments : credited[pid] <= 1

\* A delivery answered without opening a unit of work writes nothing.
C3_Step ==
    \A i \in WebhookIds :
        (wh[i].pc = "idle" /\ wh'[i] # wh[i] /\ wh'[i].pc = "idle")
            => UNCHANGED <<payments, availableSlots, usedSlots, credited>>

\* C3: of the reconcile calls for one reference that run at the same time,
\* at most one is inside the unit of work, and it is there only while the row
\* is PENDING; a call that finds the row terminal changes nothing; a
\* reference is credited at most once.
C3_OneWinner == []C3_Inv /\ [][C3_Step]_vars

\* Two deliveries for one reference reported different statuses on the two
\* connections: the FAILED one applied, the SUCCESS one was answered as a
\* no-op, and nothing was credited.
C3_Witness ==
    \E pid \in DOMAIN payments :
        /\ wh[1].pc = "idle" /\ wh[1].resp = 200 /\ wh[1].pid = pid /\ wh[1].target = "SUCCESS"
        /\ wh[2].pc = "idle" /\ wh[2].resp = 200 /\ wh[2].pid = pid /\ wh[2].target = "FAILED"
        /\ payments[pid].status = "FAILED" /\ credited[pid] = 0

\* What a step may do to a terminal payment.
C4_Step ==
    /\ \A pid \in DOMAIN payments :
          payments[pid].status \in Terminal
             => (/\ pid \in DOMAIN payments'
                 /\ payments'[pid] = payments[pid]
                 /\ credited'[pid] = credited[pid])
    /\ \A i \in WebhookIds :
          (/\ wh[i].pc = "idle" /\ wh'[i] # wh[i]
           /\ wh'[i].pid \in DOMAIN payments
           /\ payments[wh'[i].pid].status \in Terminal)
             => (/\ wh'[i].pc = "idle" /\ wh'[i].resp = 200
                 /\ UNCHANGED <<payments, availableSlots, usedSlots, credited>>)

\* C4: a terminal payment never changes again: no step changes its row or its
\* credit count, no unit of work is open on it, and a reconcile call that
\* finds it terminal is answered 200 and changes no row and no balance.
C4_TerminalImmutable ==
    [](\A i \in WebhookIds : wh[i].pc = "intx" => payments[wh[i].pid].status = "PENDING")
    /\ [][C4_Step]_vars

\* A FAILED report was answered 200 for a payment that stays SUCCESS.
C4_Witness ==
    \E i \in WebhookIds : \E pid \in DOMAIN payments :
        /\ wh[i].pc = "idle" /\ wh[i].resp = 200 /\ wh[i].pid = pid /\ wh[i].target = "FAILED"
        /\ payments[pid].status = "SUCCESS" /\ credited[pid] = 1

\* The status changes of one step.
C5_Step ==
    \A pid \in DOMAIN payments' :
        IF pid \in DOMAIN payments
        THEN \/ payments'[pid].status = payments[pid].status
             \/ payments[pid].status = "PENDING" /\ payments'[pid].status \in Terminal
        ELSE payments'[pid].status = "PENDING"

\* C5: a row is inserted PENDING, every change of a row's status is
\* PENDING -> SUCCESS or PENDING -> FAILED, and the status is always one of
\* the three.
C5_StatusLifecycle ==
    [](\A pid \in DOMAIN payments : payments[pid].status \in {"PENDING"} \cup Terminal)
    /\ [][C5_Step]_vars

\* One payment went PENDING -> SUCCESS, another PENDING -> FAILED, and both
\* were reported the other status afterwards.
C5_Witness ==
    \E pid, qid \in DOMAIN payments :
        /\ payments[pid].status = "SUCCESS" /\ payments[qid].status = "FAILED"
        /\ wh[1].pc = "idle" /\ wh[1].resp = 200 /\ wh[1].pid = pid /\ wh[1].target = "FAILED"
        /\ wh[2].pc = "idle" /\ wh[2].resp = 200 /\ wh[2].pid = qid /\ wh[2].target = "SUCCESS"

\* The slot counter changes of one step of the payment path.
C6_Step ==
    /\ (cp' # cp \/ nextRef' # nextRef \/ Len(payments') # Len(payments))
          => UNCHANGED <<availableSlots, usedSlots>>
    /\ availableSlots' # availableSlots
          => \E i \in WebhookIds :
                /\ wh[i].pc = "intx" /\ wh[i].target = "SUCCESS"
                /\ wh'[i].pc = "idle" /\ wh'[i].resp = 200
    /\ usedSlots' = usedSlots

\* C6: no step of a payment creation (create, purchaseSlots, the provider
\* call, the insert), successful or not, changes a slot counter; on the
\* payment path availableSlots changes only when a unit of work for a SUCCESS
\* report commits.
C6_NoPrematureCredit == [][C6_Step]_vars

\* A creation succeeded, a later one failed at the insert, and the payment is
\* PENDING with its owner's balance untouched.
C6_Witness ==
    /\ cp.pc = "idle" /\ cp.result = "InternalError"
    /\ Len(payments) = 1 /\ payments[1].status = "PENDING"
    /\ availableSlots[payments[1].userId] = DefaultSlots

\* The balance changes of one step.
C7_Step ==
    \A u \in Users :
        /\ availableSlots'[u] > availableSlots[u]
              => \E pid \in DOMAIN payments :
                    /\ payments[pid].userId = u
                    /\ payments[pid].status = "PENDING" /\ payments'[pid].status = "SUCCESS"
                    /\ credited[pid] = 0
                    /\ availableSlots'[u] = availableSlots[u] + payments[pid].slotsGranted
        /\ availableSlots'[u] < availableSlots[u] => (ops' # ops \/ products' # products)

\* C7: a step raises a user's availableSlots only by the slots of one of the
\* user's payments that goes PENDING -> SUCCESS in that step and was not
\* credited before (so neither POST /slots/credit nor PATCH /users/:id raises
\* it), and only the catalog or profile operations lower it.
C7_OnlySettlementCredits == [][C7_Step]_vars

\* Connection i took its last request past the signature check.
Accepted(i) == wh[i].pc = "intx" \/ (wh[i].pc = "idle" /\ wh[i].resp \in {200, 500})

\* Connection i answered its last request 400.
Rejected(i) == wh[i].pc = "idle" /\ wh[i].resp = 400

\* The writes of the step that handles a request whose header is not the
\* HMAC of its bytes.
C8_Step ==
    \A i \in WebhookIds :
        (wh[i].pc = "idle" /\ wh'[i] # wh[i] /\ ~wh'[i].genuine)
            => UNCHANGED <<payments, availableSlots, usedSlots, credited>>

\* C8: a request whose header is not the HMAC of the bytes received (body
\* changed after signing, header missing or wrong) is answered 400 and never
\* enters reconcile, and the step that handles it changes no row and no
\* balance.
C8_SignatureGate ==
    [](\A i \in WebhookIds : ~wh[i].genuine => ~Accepted(i)) /\ [][C8_Step]_vars

\* C9: a request is accepted exactly if its header is the HMAC, under the
\* server's secret, of the raw bytes received.
C9_RawBytesHmac ==
    \A i \in WebhookIds : (Accepted(i) \/ Rejected(i)) => (Accepted(i) <=> wh[i].genuine)

\* C10: verifySignature returns a boolean; it is FALSE when the secret is not
\* set, when the header is missing, and when the header is not the HMAC of
\* rawBody under the secret; it is TRUE only when the secret is set and the
\* header is that HMAC.
C10_VerifySignature ==
    sigRet # <<>> =>
        LET rawBody == sigArgs[1]
            header == sigArgs[2]
            ret == sigRet[1]
        IN  /\ ret \in BOOLEAN
            /\ secret = "" => ret = FALSE
            /\ header = NoHeader => ret = FALSE
            /\ header # Hmac(secret, rawBody) => ret = FALSE
            /\ ret = TRUE => (secret # "" /\ header = Hmac(secret, rawBody))

\* verifySignature returned FALSE for a header that is the HMAC of the body
\* under the provider's key while the server has no secret.
C10_Witness ==
    /\ sigRet = <<FALSE>> /\ secret = ""
    /\ sigArgs[2] = Hmac("sk", sigArgs[1])

\* C11: every request that passed the signature check and was answered was
\* answered 200, also when reconcile found the row terminal, found no row or
\* failed.
C11_AlwaysAcknowledged ==
    \A i \in WebhookIds : (Accepted(i) /\ wh[i].pc = "idle") => wh[i].resp = 200

\* The step that handles a request whose header is the HMAC of its bytes
\* under the server's secret and whose reference has no ledger row.
C12_Step ==
    \A i \in WebhookIds :
        (wh[i].pc = "idle" /\ wh'[i] # wh[i] /\ secret # "")
            => \A raw \in Plain :
                  (findByReference(raw.ref) = {} /\ webhook(i, raw, Hmac(secret, raw)))
                     => /\ wh'[i].pc = "idle" /\ wh'[i].resp = 200
                        /\ UNCHANGED <<payments, availableSlots, usedSlots, credited>>

\* C12: a correctly signed request whose reference has no ledger row is
\* answered 200, and the step that handles it creates or changes no row and
\* changes no balance.
C12_UnknownReference == [][C12_Step]_vars

\* Creation requests past createPayment's checks, and the rows inserted.
C13_Inv ==
    /\ cp.pc \in {"init", "insert"} => (cp.amount > 0 /\ cp.slots > 0)
    /\ \A pid \in DOMAIN payments :
          payments[pid].amount > 0 /\ payments[pid].slotsGranted > 0

\* The step of a creation request with amount <= 0 or units <= 0, through
\* POST /payments or through purchaseSlots (whose amount is slots * 1).
C13_Step ==
    (cp.pc = "idle" /\ cp' # cp)
        => \A u \in UserInputs, a \in SlotInputs, n \in SlotInputs :
              (/\ a <= 0 \/ n <= 0
               /\ create(u, a, n) \/ (a = n * RatePerSlot /\ purchaseSlots(u, n)))
                  => /\ cp'.pc = "idle"
                     /\ cp'.result \in {"InvalidRequest", "Invalid userId", "Invalid slots"}
                     /\ UNCHANGED <<nextRef, payments, availableSlots, usedSlots, credited>>

\* C13: a creation request with amount <= 0 or units <= 0 ends at once with
\* InvalidRequest from createPayment (or with purchaseSlots' own rejection
\* before createPayment is called): it never reaches the provider call, no
\* reference is generated, no row is inserted and no balance changes; every
\* request that reaches the provider, and every row, has amount > 0 and
\* units > 0.
C13_InvalidRequest == []C13_Inv /\ [][C13_Step]_vars

\* createPayment answered InvalidRequest after an earlier creation
\* succeeded: one reference, one row, no balance changed.
C13_Witness ==
    /\ cp = NoCreation("InvalidRequest")
    /\ nextRef = 1 /\ Len(payments) = 1 /\ payments[1].status = "PENDING"
    /\ \A u \in Users : availableSlots[u] = DefaultSlots

\* The step of purchaseSlots with slots <= 0.
C14_Step ==
    (cp.pc = "idle" /\ cp' # cp)
        => \A u \in UserInputs, n \in SlotInputs :
              (n <= 0 /\ purchaseSlots(u, n))
                  => /\ cp'.pc = "idle"
                     /\ cp'.result \in {"Invalid userId", "Invalid slots"}
                     /\ UNCHANGED <<nextRef, payments, availableSlots, usedSlots, credited>>

\* C14: purchaseSlots with slots <= 0 ends with one of its
\* BadRequestExceptions: createPayment is not called (no reference is
\* generated, the provider call is not reached), no row is inserted or
\* changed and no balance changes.
C14_PurchaseRejectsNonPositive == [][C14_Step]_vars

\* purchaseSlots answered "Invalid slots" after an earlier creation
\* succeeded: one reference, one row, no balance changed.
C14_Witness ==
    /\ cp = NoCreation("Invalid slots")
    /\ nextRef = 1 /\ Len(payments) = 1 /\ payments[1].status = "PENDING"
    /\ \A u \in Users : availableSlots[u] = DefaultSlots

\* The users of the creation requests past createPayment's checks, and of
\* the rows inserted.
C15_Inv ==
    /\ cp.pc \in {"init", "insert"} => (cp.userId \in Users /\ ~isDeleted[cp.userId])
    /\ \A pid \in DOMAIN payments :
          payments[pid].userId \in Users /\ ~isDeleted[payments[pid].userId]

\* The step of a creation request, otherwise valid, for a user id that has
\* no row or whose row is deleted.
C15_Step ==
    (cp.pc = "idle" /\ cp' # cp)
        => \A u \in UserInputs, a \in SlotInputs, n \in SlotInputs :
              (/\ u \notin Users \/ isDeleted[u]
               /\ a > 0 /\ n > 0
               /\ create(u, a, n) \/ (a = n * RatePerSlot /\ purchaseSlots(u, n)))
                  => /\ cp'.pc = "idle"
                     /\ cp'.result \in {"UserNotFound", "NotFound"}
                                       \cup (IF u <= 0 THEN {"Invalid userId"} ELSE {})
                     /\ UNCHANGED <<nextRef, payments, availableSlots, usedSlots, credited>>

NotFinal == {raw \in Compact : raw.status \notin {"success", "failed"}}

\* Connection i answers 200 in this step and the step opens no unit of work
\* and writes nothing.
Ignored(i) ==
    /\ wh'[i].pc = "idle" /\ wh'[i].resp = 200
    /\ UNCHANGED <<payments, availableSlots, usedSlots, credited>>

\* A step that handles a request on connection i and is not Ignored(i) is
\* not the handling of a delivery of NotFinal: every accepted delivery of
\* NotFinal is Ignored.
C16_Step ==
    \A i \in WebhookIds :
        (wh[i].pc = "idle" /\ wh'[i] # wh[i] /\ wh'[i].resp # 400 /\ ~Ignored(i))
            => \A raw \in NotFinal : \A sig \in ProviderHeaders(raw) : ~webhook(i, raw, sig)

\* C16: an accepted delivery whose status is neither success nor failed is
\* answered 200 and attempts no transition: no unit of work is opened, no
\* row and no balance changes; whatever such deliveries were handled, every
\* balance is the default plus the slots of the SUCCESS payments and a
\* payment acknowledged for SUCCESS (and not finalised FAILED) is credited
\* exactly once.
C16_NotFinalIgnored ==
    [](/\ \A u \in Users : availableSlots[u] = DefaultSlots + Settled(u)
       /\ \A i \in WebhookIds : \A pid \in DOMAIN payments :
             (Acked(i, pid) /\ payments[pid].status # "FAILED") => credited[pid] = 1)
    /\ [][C16_Step]_vars

\* Connection 1 answered a delivery with a status that is not final, and
\* connection 2 a SUCCESS delivery for a payment that is credited once.
C16_Witness ==
    /\ wh[1] = Idle(200, TRUE, 0, "NONE")
    /\ \E pid \in DOMAIN payments :
          /\ Acked(2, pid) /\ payments[pid].status = "SUCCESS" /\ credited[pid] = 1
          /\ availableSlots[payments[pid].userId] = DefaultSlots + Settled(payments[pid].userId)

\* The commit on connection i while connection j has a unit of work open on
\* another payment of the same user.
C17_Step ==
    \A i, j \in WebhookIds :
        (/\ i # j /\ wh[i].pc = "intx" /\ wh[j].pc = "intx"
         /\ payments[wh[i].pid].userId = payments[wh[j].pid].userId
         /\ wh'[i].pc = "idle" /\ wh'[i].resp = 200 /\ wh[i].target = "SUCCESS")
            => LET u == payments[wh[i].pid].userId IN
               /\ availableSlots'[u] = availableSlots[u] + payments[wh[i].pid].slotsGranted
               /\ payments'[wh[i].pid].status = "SUCCESS"
               /\ payments'[wh[j].pid] = payments[wh[j].pid]
               /\ wh'[j] = wh[j]

\* C17: when two payments of one user have both been acknowledged for
\* SUCCESS (neither was finalised FAILED), both are SUCCESS and the user's
\* availableSlots is the default plus the slots of the user's SUCCESS
\* payments, both of these among them; a commit made while the other unit of
\* work is open adds exactly its own slots and leaves the other unit of work
\* and its row alone.
C17_ConcurrentCredits ==
    [](\A p, q \in DOMAIN payments :
          (/\ p # q /\ payments[p].userId = payments[q].userId
           /\ Acked(1, p) /\ Acked(2, q)
           /\ payments[p].status # "FAILED" /\ payments[q].status # "FAILED")
             => LET u == payments[p].userId IN
                /\ payments[p].status = "SUCCESS" /\ payments[q].status = "SUCCESS"
                /\ credited[p] = 1 /\ credited[q] = 1
                /\ availableSlots[u] = DefaultSlots + Settled(u)
                /\ Settled(u) >= payments[p].slotsGranted + payments[q].slotsGranted)
    /\ [][C17_Step]_vars

\* Two payments of one user were settled on the two connections and the
\* balance is the default plus both.
C17_Witness ==
    \E p, q \in DOMAIN payments :
        /\ p # q /\ payments[p].userId = payments[q].userId
        /\ Acked(1, p) /\ Acked(2, q)
        /\ payments[p].status = "SUCCESS" /\ payments[q].status = "SUCCESS"
        /\ availableSlots[payments[p].userId]
              = DefaultSlots + payments[p].slotsGranted + payments[q].slotsGranted

\* The step in which a unit of work ends without the answer 200.
C18_Step ==
    \A i \in WebhookIds :
        (wh[i].pc = "intx" /\ wh'[i].pc = "idle" /\ wh'[i].resp # 200)
            => /\ payments' = payments
               /\ payments'[wh[i].pid].status = "PENDING"
               /\ UNCHANGED <<availableSlots, usedSlots, credited>>

\* C18: a unit of work that fails leaves every row and every balance as
\* they were before the call, the payment PENDING; and a payment whose
\* reconcile call failed is, at any later time, SUCCESS exactly if it has
\* been credited once, and is credited at most once.
C18_RollBack ==
    [](\A i \in WebhookIds :
          (wh[i].pc = "idle" /\ wh[i].resp = 500)
             => /\ credited[wh[i].pid] = (IF payments[wh[i].pid].status = "SUCCESS" THEN 1 ELSE 0)
                /\ availableSlots[payments[wh[i].pid].userId]
                      = DefaultSlots + Settled(payments[wh[i].pid].userId))
    /\ [][C18_Step]_vars

\* The SUCCESS call for a payment failed on connection 1; the call on
\* connection 2 settled the payment afterwards, and it is credited once.
C18_Witness ==
    \E pid \in DOMAIN payments :
        /\ wh[1] = Idle(500, TRUE, pid, "SUCCESS")
        /\ Acked(2, pid)
        /\ payments[pid].status = "SUCCESS" /\ credited[pid] = 1
        /\ availableSlots[payments[pid].userId] = DefaultSlots + payments[pid].slotsGranted

\* References stay with their rows, and an insert whose reference is in the
\* table fails and writes nothing.
C19_Step ==
    /\ \A pid \in DOMAIN payments :
          /\ pid \in DOMAIN payments'
          /\ payments'[pid].providerPaymentId = payments[pid].providerPaymentId
    /\ (cp.pc = "insert" /\ cp'.pc = "idle" /\ findByReference(cp.ref) # {})
          => /\ \A ok \in BOOLEAN : insertPendingError(ok, cp.ref) = "DuplicateReference"
             /\ cp'.result = "InternalError"
             /\ UNCHANGED <<payments, availableSlots, usedSlots, credited>>

\* C19: no two rows have the same providerPaymentId, no step changes the
\* providerPaymentId of a row or removes a row, and an insert whose reference
\* is already in the table fails with DuplicateReference (createPayment
\* reports InternalError) and leaves every row and every balance unchanged.
C19_UniqueReference ==
    [](\A p, q \in DOMAIN payments :
          p # q => payments[p].providerPaymentId # payments[q].providerPaymentId)
    /\ [][C19_Step]_vars

\* The creation that generated reference 1 a second time failed at the
\* insert; the row that holds the reference is as it was.
C19_Witness ==
    /\ cp = NoCreation("InternalError")
    /\ nextRef = 1 /\ Len(payments) = 1
    /\ payments[1].providerPaymentId = 1 /\ payments[1].status = "PENDING"
    /\ \A u \in Users : availableSlots[u] = DefaultSlots

\* The order of the provider call and the insert, and the outcome of a
\* failed provider call and of a failed insert.
C20_Order ==
    /\ Len(payments') > Len(payments) => (cp.pc = "insert" /\ cp'.result = "ok")
    /\ (cp.pc = "init" /\ cp'.pc = "idle")
          => (cp'.result = "ProviderError" /\ payments' = payments)
    /\ initializeTransaction(FALSE)
          => (cp'.pc = "idle" /\ cp'.result = "ProviderError" /\ payments' = payments)
    /\ insertPending(FALSE)
          => (cp'.pc = "idle" /\ cp'.result = "InternalError" /\ payments' = payments)
    /\ (cp.pc = "insert" /\ cp'.pc = "idle" /\ cp'.result # "ok")
          => (cp'.result = "InternalError" /\ payments' = payments)

\* After a failed insert no PENDING row has the reference of the call.
C20_NoPendingRow ==
    (cp.pc = "insert" /\ cp'.pc = "idle" /\ cp'.result # "ok")
        => \A pid \in DOMAIN payments' :
              payments'[pid].providerPaymentId = cp.ref => payments'[pid].status # "PENDING"

\* After an insert that failed for another reason than a duplicate
\* reference, no row has the reference of the call.
C20_NoRow ==
    (cp.pc = "insert" /\ cp'.pc = "idle" /\ cp'.result # "ok" /\ findByReference(cp.ref) = {})
        => \A pid \in DOMAIN payments' : payments'[pid].providerPaymentId # cp.ref

\* A step that handles a request on connection i and is not Ignored(i) is
\* not the handling of a delivery whose reference has no row.
C20_Notified ==
    \A i \in WebhookIds :
        (wh[i].pc = "idle" /\ wh'[i] # wh[i] /\ wh'[i].resp # 400 /\ ~Ignored(i))
            => \A raw \in Compact : \A sig \in ProviderHeaders(raw) :
                  findByReference(raw.ref) = {} => ~webhook(i, raw, sig)

\* C20 as claimed: a row is inserted only after the provider call succeeded;
\* a failed provider call ends the request with no row inserted; a failed
\* insert ends it with InternalError and no row inserted, no PENDING row has
\* the reference afterwards, and a delivery for a reference without a row
\* credits nothing.
C20_AsClaimed == [][C20_Order /\ C20_NoPendingRow /\ C20_Notified]_vars

\* C20, amended: as claimed, but after a failed insert no row has the
\* reference only if the insert failed for another reason than a duplicate
\* reference; after a duplicate the row that holds the reference is
\* unchanged (it may be PENDING, and a success delivery settles it).
C20_InitBeforeInsert == [][C20_Order /\ C20_NoRow /\ C20_Notified]_vars

\* The first creation failed at the insert: a reference was generated, no
\* row exists, and the delivery answered afterwards for a SUCCESS report
\* found no row and credited nothing.
C20_Witness ==
    /\ cp = NoCreation("InternalError")
    /\ nextRef = 1 /\ payments = <<>>
    /\ wh[1] = Idle(200, TRUE, 0, "SUCCESS")
    /\ \A u \in Users : availableSlots[u] = DefaultSlots

\* The balance changes of a step, and two deliveries that differ only in
\* the payload's further fields.
C21_Step ==
    /\ \A i \in WebhookIds :
          (wh[i].pc = "intx" /\ wh'[i].pc = "idle" /\ wh'[i].resp = 200)
             => LET row == payments[wh[i].pid] IN
                availableSlots' =
                    [availableSlots EXCEPT ![row.userId] =
                        @ + (IF wh[i].target = "SUCCESS" THEN row.slotsGranted ELSE 0)]
    /\ availableSlots' # availableSlots
          => \E i \in WebhookIds :
                /\ wh[i].pc = "intx" /\ wh[i].target = "SUCCESS" /\ wh'[i].pc = "idle"
                /\ credited[wh[i].pid] = 0 /\ credited'[wh[i].pid] = 1
    /\ \A i \in WebhookIds :
          (wh[i].pc = "idle" /\ wh'[i] # wh[i] /\ secret # "")
             => \A raw \in RawBodies :
                   (raw.ws = 0 /\ webhook(i, raw, Hmac(secret, raw)))
                      => \A meta \in Metas :
                            LET other == [raw EXCEPT !.meta = meta]
                            IN  webhook(i, other, Hmac(secret, other))

\* C21: the commit of an applied reconcile(ref, SUCCESS) adds the row's
\* slotsGranted to the availableSlots of the row's userId and changes no
\* other balance (a FAILED one changes none); a balance changes only in
\* such a commit, for a payment not credited before; and two accepted
\* deliveries that agree on reference and status do the same whatever else
\* their payloads carry.
C21_CreditsOwnRow == [][C21_Step]_vars

\* A delivery whose payload carried other further fields settled a payment
\* of user 2: the row's slots went to user 2 and user 1's balance is the
\* default.
C21_Witness ==
    \E pid \in DOMAIN payments :
        /\ Acked(1, pid) /\ payments[pid].status = "SUCCESS" /\ credited[pid] = 1
        /\ payments[pid].userId = 2 /\ Len(payments) = 1
        /\ availableSlots[2] = DefaultSlots + payments[pid].slotsGranted
        /\ availableSlots[1] = DefaultSlots

\* C22: every payment whose status is SUCCESS has an amount equal to its
\* slotsGranted times the rate of 1 GHS per slot, whether it was created
\* through POST /payments or through POST /slots/purchase.
C22_PaidForUnits ==
    \A pid \in DOMAIN payments :
        payments[pid].status = "SUCCESS"
            => payments[pid].amount = payments[pid].slotsGranted * RatePerSlot

\* The payment with reference r is SUCCESS and its slots are credited.
Credited(r) ==
    \E pid \in findByReference(r) : payments[pid].status = "SUCCESS" /\ credited[pid] = 1

C24_NonNegative == \A u \in Users : availableSlots[u] >= 0 /\ usedSlots[u] >= 0

\* The writes of the commit of an applied reconcile, and the rows kept by
\* every step.
C25_Step ==
    /\ \A i \in WebhookIds :
          (wh[i].pc = "intx" /\ wh'[i].pc = "idle" /\ wh'[i].resp = 200)
             => LET pid == wh[i].pid
                    owner == payments[pid].userId
                IN  /\ payments'[pid] = [payments[pid] EXCEPT !.status = wh[i].target]
                    /\ \A q \in DOMAIN payments : q # pid => payments'[q] = payments[q]
                    /\ DOMAIN payments' = DOMAIN payments
                    /\ \A u \in Users :
                          (u # owner \/ wh[i].target # "SUCCESS")
                             => availableSlots'[u] = availableSlots[u]
                    /\ UNCHANGED <<usedSlots, isDeleted, products>>
    /\ \A q \in DOMAIN payments :
          /\ q \in DOMAIN payments'
          /\ payments'[q].providerPaymentId = payments[q].providerPaymentId
          /\ payments'[q].userId = payments[q].userId
          /\ payments'[q].amount = payments[q].amount
          /\ payments'[q].slotsGranted = payments[q].slotsGranted

\* C25: the commit of an applied reconcile(ref, s) changes the status of
\* the row with that reference and nothing else of the ledger, changes no
\* balance but the availableSlots of that row's owner, and that one only
\* when s is SUCCESS; usedSlots and the accounts are unchanged; and no step
\* removes a ledger row or changes a row's reference, userId, amount or
\* slotsGranted.
C25_ReconcileFrame == [][C25_Step]_vars

\* One payment was finalised FAILED by an applied reconcile while another
\* payment of the same user stayed PENDING, and no balance moved.
C25_Witness ==
    \E i \in WebhookIds : \E pid \in DOMAIN payments : \E q \in DOMAIN payments :
        /\ wh[i].pc = "idle" /\ wh[i].resp = 200 /\ wh[i].pid = pid /\ wh[i].target = "FAILED"
        /\ payments[pid].status = "FAILED"
        /\ q # pid /\ payments[q].status = "PENDING" /\ payments[q].userId = payments[pid].userId
        /\ \A u \in Users : availableSlots[u] = DefaultSlots

\* The writes of the step in which a product creation request ends.
C26_Step ==
    /\ \A k \in ProductReqs :
          /\ (pr[k].pc # "done" /\ pr'[k].pc = "done")
                => LET u == pr'[k].userId
                   IN  /\ availableSlots[u] > 0
                       /\ availableSlots'[u] = availableSlots[u] - 1
                       /\ usedSlots'[u] = usedSlots[u] + 1
                       /\ products'[u] = products[u] + 1
          /\ (pr[k].pc # "failed" /\ pr'[k].pc = "failed")
                => UNCHANGED <<availableSlots, usedSlots, products>>
    /\ (products' # products \/ usedSlots' # usedSlots)
          => \E k \in ProductReqs : pr[k].pc # "done" /\ pr'[k].pc = "done"

\* C26: a product creation succeeds only when the owner's availableSlots is
\* positive at that moment, and then availableSlots falls by 1, usedSlots
\* rises by 1 and one product row is added in the same step; a creation
\* that fails changes neither counter and adds no product; and a user's
\* products are as many as the slots the user has consumed.
C26_AtomicConsumption ==
    [](\A u \in Users : products[u] = usedSlots[u]) /\ [][C26_Step]_vars

\* The store as the status reads see it.
Store == <<payments, credited, availableSlots, usedSlots, isDeleted>>

\* A step that answers a status read writes nothing but the response.
C27_Step ==
    /\ poll' # poll => UNCHANGED Store
    /\ Store' # Store
          => /\ \A id \in 0..MaxPayments : ~getPaymentStatus(id) /\ ~getById(id)
             /\ \A u \in UserInputs : ~getUserSlots(u) /\ ~getByUser(u)

\* C27: getPaymentStatus, GET /payments/:id, GET /payments/user/:id and
\* GET /slots/:userId leave every payment's status, every credit mark and
\* every balance as they were: a step that changes any of them is not one of
\* these reads, and a PENDING payment that was polled is still PENDING and
\* uncredited unless a webhook settled it.
C27_PureReads == [][C27_Step]_vars

\* A PENDING payment was polled with getPaymentStatus and is still PENDING
\* and not credited.
C27_Witness ==
    /\ poll.kind = "status" /\ poll.status = "PENDING"
    /\ payments[poll.id].status = "PENDING" /\ credited[poll.id] = 0
    /\ \A u \in Users : availableSlots[u] = DefaultSlots

\* The amounts of a purchase of cp.slots slots in progress.
C28_Inv ==
    (cp.via = "slots" /\ cp.pc \in {"init", "insert"})
        => /\ cp.slots > 0
           /\ cp.amount = cp.slots * RatePerSlot
           /\ cp.pc = "insert" => cp.sent = 100 * cp.slots

\* The row a purchase inserts.
C28_Step ==
    (cp.via = "slots" /\ Len(payments') = Len(payments) + 1)
        => /\ payments'[Len(payments')].amount = cp.slots * RatePerSlot
           /\ payments'[Len(payments')].slotsGranted = cp.slots

\* C28: for a purchase of n slots accepted by purchaseSlots, n is positive,
\* the amount handed to createPayment and recorded in the ledger row is
\* n times 1 GHS, and the amount in the request to the provider is 100 n.
C28_PurchaseAmounts == []C28_Inv /\ [][C28_Step]_vars

\* A purchase of MaxSlots slots has been initialized at the provider.
C28_Witness ==
    /\ cp.via = "slots" /\ cp.pc = "insert" /\ cp.slots = MaxSlots
    /\ cp.amount = MaxSlots /\ cp.sent = 100 * MaxSlots

\* C30: the response of getPaymentStatus for a payment whose stored status
\* is PENDING, SUCCESS or FAILED has isPending true exactly for PENDING,
\* isCompleted true exactly for SUCCESS and isFailed true exactly for
\* FAILED, so exactly one of the three flags is true.
C30_OneFlag ==
    poll.kind = "status"
        => /\ poll.status \in {"PENDING", "SUCCESS", "FAILED"}
           /\ poll.status = payments[poll.id].status \/ poll.status = "PENDING"
           /\ poll.isPending <=> poll.status = "PENDING"
           /\ poll.isCompleted <=> poll.status = "SUCCESS"
           /\ poll.isFailed <=> poll.status = "FAILED"

\* getPaymentStatus answered for a FAILED payment with isFailed alone.
C30_Witness ==
    /\ poll.kind = "status" /\ poll.status = "FAILED"
    /\ poll.isFailed /\ ~poll.isCompleted /\ ~poll.isPending

====
